---- MODULE Spec2Model ----
(***************************************************************************)
(* Model of stxpub/api: the block-commit graph pipeline of dotsTask        *)
(* (fetchCommitData, processWinningBlocks, processCanonicalTip, publish),  *)
(* queryMinerPower and the refresh of minerAddressMap                      *)
(* (updateMinerAddressMapTask), translated from src/tasks.go and           *)
(* src/api.go.                                                             *)
(*                                                                         *)
(* Input conventions.  Rows of block_commits carry a unique txid; the      *)
(* model names the txid of the n-th scanned row n (the code never compares *)
(* txids for order).  The empty string of Go (commit.parent == "") and a   *)
(* winning_block_txid that names no row are both NoTxid.  Rows arrive in   *)
(* ascending block_height (ORDER BY block_height ASC) and the window is    *)
(* lowerBound..startBlock with startBlock = MAX(block_height).             *)
(* PositionalKeys (block_height, vtxindex) may collide.                    *)
(* The enrichment fields stacksHeight, blockHash, coinbaseEarned and       *)
(* feesEarned are labels that no flag depends on; they are not modelled.   *)
(***************************************************************************)
EXTENDS Integers, Sequences, FiniteSets, TLC

\* Largest number of block_commits rows in one window.
MaxRows == 3
\* numBlocks argument of getBlockRange in dotsTask (20 in the source).
DotsNumBlocks == 1
\* Largest number of published dots rows before the scheduler is cut off.
MaxRuns == 2

NoTxid == 0
\* startBlock = MAX(block_height); lowerBound = startBlock - numBlocks
StartBlock == DotsNumBlocks + 1
LowerBound == StartBlock - DotsNumBlocks
WindowHeights == LowerBound..StartBlock
VtxIndexes == {0, 1}
\* A parent pointer below the window, never registered in hashMap.
OutsideKey == <<LowerBound - 1, 0>>
Spends == {1, 2}
SortitionIds == {"s1", "s2"}

\* queryMinerPower: const numBlocks
numBlocks == 144
\* queryMinerPower: const noSortitionKey
noSortitionKey == "No Canonical Sortition"
\* payments.address values; none of them is noSortitionKey
Addresses == {"SP1", "SP2"}
\* _, lowerBound := getBlockRange(db, numBlocks)
PowerLowerBound == StartBlock - numBlocks
\* burn_header_height of an ancestor row: at lowerBound (skipped) or above it
PowerHeights == {PowerLowerBound, PowerLowerBound + 1}
\* burnchain_commit_burn and stx_reward of an ancestor row
CommitBurns == {1}
StxRewards == {1}

\* Largest number of rows of the miner address query that the model yields
\* (LIMIT 10 in tasks.go, LIMIT 144 in the later revision).
MaxAddrRows == 2
\* Largest number of ancestor rows of one invocation whose history is recorded
MaxChain == 3
\* Strings are sequences of characters here; a bitcoin address is one token,
\* the double quote is "q".  apparent_sender is stored quoted.
RawBtcAddrs == {<<"q", "bc1", "q">>, <<"q", "bc2", "q">>, <<"bc2">>}
\* The table after the refresh main() runs before the server starts
StartupTable == [a \in {"SP1"} |-> <<"bc1">>]

VARIABLES
    alive,           \* the host process runs (no log.Fatal yet)
    pc,              \* position of dotsTask
    rows,            \* rows yielded so far by the block_commits query
    allCommits,      \* AllCommits: txid -> BlockCommit
    hashMap,         \* fetchCommitData.hashMap: hashkey -> txid
    commitsByBlock,  \* CommitsByBlock: height -> set of txid
    sortitionFeesMap,\* SortitionFeesMap: sortition id -> spend
    block_height,    \* loop variable of processWinningBlocks
    winningBlockTxid,\* processWinningBlocks: the winner read in the last iteration
    snapshots,       \* snapshots rows that are read twice: height -> winning_block_txid
    canonical_tip,   \* processCanonicalTip.canonical_tip
    tip,             \* processCanonicalTip.tip (walk cursor)
    dots,            \* rows inserted into hub.sqlite dots (bitcoin_block_height)
    fatal,           \* what the last log.Fatal / read error of this invocation was about
    minerAddressMap, \* var minerAddressMap sync.Map: stacks address -> bitcoin address
    upc,             \* position of updateMinerAddressMapTask
    addrRows,        \* rows of its query not yet scanned
    oldTable,        \* minerAddressMap when the running refresh started
    newTable,        \* the table the rows of the running refresh describe
    mpc,             \* position of queryMinerPower
    rowsSeen,        \* rows the block_ancestors query has yielded (LIMIT numBlocks)
    addrCounts,      \* queryMinerPower.addrCounts
    btcSpent,        \* queryMinerPower.btcSpent
    stxEarnt,        \* queryMinerPower.stxEarnt
    numRows,         \* queryMinerPower.numRows
    miners,          \* queryMinerPower.miners, the response of /miners/power
    ancestors        \* history: the rows the block_ancestors query yielded to the
                     \* running (or last) invocation, recorded by PowerRowRecorded

dotsVars == <<alive, pc, rows, allCommits, hashMap, commitsByBlock, sortitionFeesMap,
              block_height, winningBlockTxid, snapshots, canonical_tip, tip, dots, fatal>>

addrVars == <<minerAddressMap, upc, addrRows, oldTable, newTable>>

powerVars == <<mpc, rowsSeen, addrCounts, btcSpent, stxEarnt, numRows, miners, ancestors>>

vars == <<dotsVars, addrVars, powerVars>>

EmptyMap == [x \in {} |-> 0]

\* m with key k set to v (Go: m[k] = v)
MapPut(m, k, v) == [x \in DOMAIN m \cup {k} |-> IF x = k THEN v ELSE m[x]]

\* type hashkey
HashKey(h, v) == <<h, v>>

\* One scanned row, tasks.go rows.Scan: the fields of BlockCommit set by the scan,
\* with key and parentKey, and every derived flag at its zero value.
BlockCommit(txid, vtxindex, burnBlockHeight, spend, sortitionId, parentKey) ==
    [txid |-> txid, vtxindex |-> vtxindex, burnBlockHeight |-> burnBlockHeight,
     spend |-> spend, sortitionId |-> sortitionId,
     parentBlockPtr |-> parentKey[1], parentVtxindex |-> parentKey[2],
     parent |-> NoTxid,
     won |-> FALSE, canonical |-> FALSE, tip |-> FALSE,
     potentialTip |-> FALSE, nextTip |-> FALSE]

\* commit.key = hashkey{commit.burnBlockHeight, commit.vtxindex}
Key(commit) == HashKey(commit.burnBlockHeight, commit.vtxindex)

\* commit.parentKey = hashkey{commit.parentBlockPtr, commit.parentVtxindex}
ParentKey(commit) == HashKey(commit.parentBlockPtr, commit.parentVtxindex)

\* parent, exists := hashMap[commit.parentKey]; if exists { commit.parent = parent }
ResolveParent(hm, commit) ==
    IF ParentKey(commit) \in DOMAIN hm
    THEN [commit EXCEPT !.parent = hm[ParentKey(commit)]]
    ELSE commit

RegisterKeyFirstWins(hm, commit) ==
    IF Key(commit) \in DOMAIN hm THEN hm ELSE MapPut(hm, Key(commit), commit.txid)

RegisterKeyUnderParentKey(hm, commit) == MapPut(hm, ParentKey(commit), commit.txid)

\* hashMap[commit.key] = commit.txid
RegisterKey(hm, commit) == MapPut(hm, Key(commit), commit.txid)

Init ==
    /\ alive = TRUE
    /\ pc = "idle"
    /\ rows = <<>>
    /\ allCommits = EmptyMap
    /\ hashMap = EmptyMap
    /\ commitsByBlock = EmptyMap
    /\ sortitionFeesMap = EmptyMap
    /\ block_height = 0
    /\ winningBlockTxid = NoTxid
    /\ snapshots = EmptyMap
    /\ canonical_tip = NoTxid
    /\ tip = NoTxid
    /\ dots = <<>>
    /\ fatal = "none"
    /\ minerAddressMap = StartupTable
    /\ upc = "idle"
    /\ addrRows = <<>>
    /\ oldTable = StartupTable
    /\ newTable = StartupTable
    /\ mpc = "idle"
    /\ rowsSeen = 0
    /\ addrCounts = EmptyMap
    /\ btcSpent = EmptyMap
    /\ stxEarnt = EmptyMap
    /\ numRows = 0
    /\ miners = <<>>
    /\ ancestors = <<>>

\* log.Fatal: os.Exit(1); the memory of the process is gone, hub.sqlite stays
\* (rows, the history of what the query had yielded, is kept).
Exit ==
    /\ alive' = FALSE
    /\ pc' = "exited"
    /\ UNCHANGED rows
    /\ minerAddressMap' = EmptyMap
    /\ upc' = "exited"
    /\ addrRows' = <<>>
    /\ oldTable' = EmptyMap
    /\ newTable' = EmptyMap
    /\ mpc' = "exited"
    /\ rowsSeen' = 0
    /\ addrCounts' = EmptyMap
    /\ btcSpent' = EmptyMap
    /\ stxEarnt' = EmptyMap
    /\ numRows' = 0
    /\ miners' = <<>>
    /\ ancestors' = <<>>
    /\ allCommits' = EmptyMap
    /\ hashMap' = EmptyMap
    /\ commitsByBlock' = EmptyMap
    /\ sortitionFeesMap' = EmptyMap
    /\ block_height' = 0
    /\ winningBlockTxid' = NoTxid
    /\ snapshots' = EmptyMap
    /\ canonical_tip' = NoTxid
    /\ tip' = NoTxid
    /\ UNCHANGED dots

\* Sum of f[x] over x in S
RECURSIVE SumOver(_, _)
SumOver(f, S) ==
    IF S = {} THEN 0
    ELSE LET x == CHOOSE y \in S : TRUE IN f[x] + SumOver(f, S \ {x})

\* tasks.go 301-309, grouping: commitsByBlock[blockHeight] = append(..., commit)
GroupByBlock(commits) ==
    [h \in {commits[t].burnBlockHeight : t \in DOMAIN commits} |->
        {t \in DOMAIN commits : commits[t].burnBlockHeight = h}]

SumSortitionFeesAssign(commits) ==
    [g \in {commits[t].sortitionId : t \in DOMAIN commits} |->
        commits[CHOOSE t \in DOMAIN commits : commits[t].sortitionId = g].spend]

\* tasks.go 302-309, fees: sortitionFeesMap[commit.sortitionId] += commit.spend
\* over the values of allCommits
SumSortitionFees(commits) ==
    [g \in {commits[t].sortitionId : t \in DOMAIN commits} |->
        SumOver([t \in DOMAIN commits |-> commits[t].spend],
                {t \in DOMAIN commits : commits[t].sortitionId = g})]

ProcessWinningCommitTipOnParent(commits, txid) ==
    LET parent == commits[txid].parent
        marked == [commits EXCEPT ![txid].won = TRUE]
    IN  IF parent \in DOMAIN commits
        THEN [marked EXCEPT ![parent].potentialTip = TRUE]
        ELSE marked

ProcessWinningCommitKeepParent(commits, txid) ==
    [commits EXCEPT ![txid].won = TRUE, ![txid].potentialTip = TRUE]

\* processWinningCommit: the flags it sets
ProcessWinningCommit(commits, txid) ==
    LET parent == commits[txid].parent
        marked == [commits EXCEPT ![txid].won = TRUE, ![txid].potentialTip = TRUE]
    IN  IF parent \in DOMAIN commits
        THEN [marked EXCEPT ![parent].potentialTip = FALSE]
        ELSE marked

RECURSIVE WinAll(_, _)
WinAll(commits, S) ==
    IF S = {} THEN commits
    ELSE LET t == CHOOSE x \in S : TRUE
         IN  WinAll(ProcessWinningCommit(commits, t), S \ {t})

ProcessHeightNoTxidCheck(commits, byBlock, h, winner) ==
    IF h \notin DOMAIN byBlock THEN commits
    ELSE IF winner \in byBlock[h] THEN WinAll(commits, byBlock[h]) ELSE commits

\* One iteration of the block_height loop of processWinningBlocks, after the
\* snapshots row has been read: skip a height without commits, else call
\* processWinningCommit for the commit whose txid is winningBlockTxid.
ProcessHeight(commits, byBlock, h, winner) ==
    IF h \notin DOMAIN byBlock THEN commits
    ELSE IF winner \in byBlock[h]
         THEN ProcessWinningCommit(commits, winner)
         ELSE commits

CanonicalStepSetsWon(commits, t, ct) ==
    [commits EXCEPT ![t].canonical = TRUE, ![t].won = TRUE,
                    ![t].tip = IF t = ct THEN TRUE ELSE @]

CanonicalStepTipEverywhere(commits, t, ct) ==
    [commits EXCEPT ![t].canonical = TRUE, ![t].tip = TRUE]

CanonicalStepToggle(commits, t, ct) ==
    [commits EXCEPT ![t].canonical = ~@,
                    ![t].tip = IF t = ct THEN TRUE ELSE @]

\* One iteration of the loop of processCanonicalTip on a commit that exists
CanonicalStep(commits, t, ct) ==
    [commits EXCEPT ![t].canonical = TRUE,
                    ![t].tip = IF t = ct THEN TRUE ELSE @]

\* processCanonicalTip as a whole: the loop from tip = t; n bounds the number of
\* iterations by the number of commits left to visit
RECURSIVE CanonicalLoop(_, _, _, _)
CanonicalLoop(commits, t, ct, n) ==
    IF t \notin DOMAIN commits \/ n = 0 THEN commits
    ELSE CanonicalLoop(CanonicalStep(commits, t, ct), commits[t].parent, ct, n - 1)

ProcessCanonicalTip(commits, ct) ==
    CanonicalLoop(commits, ct, ct, Cardinality(DOMAIN commits))

\* The rows a scan may yield after `seq`: ascending block_height, a fresh txid.
\* The code compares vtxindex values only for equality, so the first row of
\* every height has vtxindex 0 without loss of generality.
NextRows(seq, spends, sids, parentKeys) ==
    LET low == IF seq = <<>> THEN LowerBound ELSE seq[Len(seq)].burnBlockHeight
        vtx == [h \in WindowHeights |->
                   IF \E i \in 1..Len(seq) : seq[i].burnBlockHeight = h
                   THEN VtxIndexes ELSE {0}]
    IN  UNION { { BlockCommit(Len(seq) + 1, v, h, sp, g, pk) :
                    v \in vtx[h], sp \in spends, g \in sids, pk \in parentKeys[h] }
                : h \in low..StartBlock }

\* Declared parent references of a row at height h: below the window, a key of
\* height h, a key of a lower height that a scanned row registered, or a key
\* above h (never registered when the row is scanned).  A key of a lower height
\* that no row registered is never resolved, like OutsideKey.
TopologyParentKeys ==
    [h \in WindowHeights |->
        {OutsideKey} \cup ({h} \X VtxIndexes)
                     \cup {k \in (LowerBound..h) \X VtxIndexes : k \in DOMAIN hashMap}
                     \cup {HashKey(h2, 0) : h2 \in {h + 1} \cap WindowHeights}]
NoParentKeys == [h \in WindowHeights |-> {OutsideKey}]

----
\* dotsTask: openDatabases, getBlockRange
DotsStart(maxRuns) ==
    /\ alive /\ pc = "idle" /\ Len(dots) < maxRuns
    /\ pc' = "fetch"
    /\ fatal' = "none"
    /\ UNCHANGED <<addrVars, powerVars>>
    /\ UNCHANGED <<alive, rows, allCommits, hashMap, commitsByBlock, sortitionFeesMap,
                   block_height, winningBlockTxid, snapshots, canonical_tip, tip, dots>>

\* getBlockRange: db.Get fails, log.Fatal
BlockRangeError(maxRuns) ==
    /\ alive /\ pc = "idle" /\ Len(dots) < maxRuns
    /\ fatal' = "getBlockRange"
    /\ Exit

ScanRowRegisterFirst(commit) ==
    /\ alive /\ pc = "fetch" /\ Len(rows) < MaxRows
    /\ rows' = Append(rows, commit)
    /\ allCommits' = MapPut(allCommits, commit.txid,
                            ResolveParent(RegisterKey(hashMap, commit), commit))
    /\ hashMap' = RegisterKey(hashMap, commit)
    /\ UNCHANGED <<addrVars, powerVars>>
    /\ UNCHANGED <<alive, pc, commitsByBlock, sortitionFeesMap, block_height,
                   winningBlockTxid, snapshots, canonical_tip, tip, dots, fatal>>

\* fetchCommitData, one rows.Next() / rows.Scan iteration (tasks.go 271-295)
ScanRow(commit) ==
    /\ alive /\ pc = "fetch" /\ Len(rows) < MaxRows
    /\ rows' = Append(rows, commit)
    /\ allCommits' = MapPut(allCommits, commit.txid, ResolveParent(hashMap, commit))
    /\ hashMap' = RegisterKey(hashMap, commit)
    /\ UNCHANGED <<addrVars, powerVars>>
    /\ UNCHANGED <<alive, pc, commitsByBlock, sortitionFeesMap, block_height,
                   winningBlockTxid, snapshots, canonical_tip, tip, dots, fatal>>

FetchReadErrorBreak ==
    /\ alive /\ pc = "fetch"
    /\ fatal' = "fetchCommitData"
    /\ commitsByBlock' = GroupByBlock(allCommits)
    /\ sortitionFeesMap' = SumSortitionFees(allCommits)
    /\ pc' = "winning"
    /\ block_height' = LowerBound
    /\ UNCHANGED <<addrVars, powerVars>>
    /\ UNCHANGED <<alive, rows, allCommits, hashMap, winningBlockTxid, snapshots,
                   canonical_tip, tip, dots>>

\* fetchCommitData: db.Query, rows.Scan or rows.Err() fails, log.Fatal
FetchReadError ==
    /\ alive /\ pc = "fetch"
    /\ fatal' = "fetchCommitData"
    /\ Exit

\* fetchCommitData: rows exhausted (the last row is at MAX(block_height)),
\* group by block, sum the fees, return BlockCommits
FetchDone ==
    /\ alive /\ pc = "fetch"
    /\ rows # <<>> /\ rows[Len(rows)].burnBlockHeight = StartBlock
    /\ commitsByBlock' = GroupByBlock(allCommits)
    /\ sortitionFeesMap' = SumSortitionFees(allCommits)
    /\ pc' = "winning"
    /\ block_height' = LowerBound
    /\ UNCHANGED <<addrVars, powerVars>>
    /\ UNCHANGED <<alive, rows, allCommits, hashMap, winningBlockTxid, snapshots,
                   canonical_tip, tip, dots, fatal>>

\* processWinningBlocks, one block_height iteration (tasks.go 322-344); the
\* snapshots row of this height names winningBlockTxid
WinningHeight(winner) ==
    /\ alive /\ pc = "winning" /\ block_height <= StartBlock
    /\ winningBlockTxid' = winner
    /\ snapshots' = IF block_height = StartBlock
                    THEN MapPut(snapshots, block_height, winner)
                    ELSE snapshots
    /\ allCommits' = ProcessHeight(allCommits, commitsByBlock, block_height, winner)
    /\ block_height' = block_height + 1
    /\ UNCHANGED <<addrVars, powerVars>>
    /\ UNCHANGED <<alive, pc, rows, hashMap, commitsByBlock, sortitionFeesMap,
                   canonical_tip, tip, dots, fatal>>

\* processWinningBlocks: row.Scan fails (no snapshots row, or a read error), log.Fatal
WinnerReadError ==
    /\ alive /\ pc = "winning" /\ block_height <= StartBlock
    /\ fatal' = "processWinningBlocks"
    /\ Exit

\* processCanonicalTip: db.Get of winning_block_txid at start_block; the same
\* snapshots row the per-height pass read at block_height = start_block
CanonicalStart ==
    /\ alive /\ pc = "winning" /\ block_height > StartBlock
    /\ canonical_tip' = snapshots[StartBlock]
    /\ tip' = snapshots[StartBlock]
    /\ pc' = "canonical"
    /\ winningBlockTxid' = NoTxid
    /\ UNCHANGED <<addrVars, powerVars>>
    /\ UNCHANGED <<alive, rows, allCommits, hashMap, commitsByBlock, sortitionFeesMap,
                   block_height, snapshots, dots, fatal>>

\* processCanonicalTip: db.Get fails, log.Fatal
ChainHeadReadError ==
    /\ alive /\ pc = "winning" /\ block_height > StartBlock
    /\ fatal' = "processCanonicalTip"
    /\ Exit

\* processCanonicalTip, one iteration of the for loop (tasks.go 374-384)
CanonicalWalk ==
    /\ alive /\ pc = "canonical"
    /\ IF tip \in DOMAIN allCommits
       THEN /\ allCommits' = CanonicalStep(allCommits, tip, canonical_tip)
            /\ tip' = allCommits[tip].parent
            /\ pc' = pc
       ELSE /\ pc' = "render"
            /\ UNCHANGED <<allCommits, tip>>
    /\ UNCHANGED <<addrVars, powerVars>>
    /\ UNCHANGED <<alive, rows, hashMap, commitsByBlock, sortitionFeesMap,
                   block_height, winningBlockTxid, snapshots, canonical_tip, dots, fatal>>

\* The locals of dotsTask are dropped when it returns
DropLocals ==
    /\ rows' = <<>>
    /\ allCommits' = EmptyMap
    /\ hashMap' = EmptyMap
    /\ commitsByBlock' = EmptyMap
    /\ sortitionFeesMap' = EmptyMap
    /\ block_height' = 0
    /\ winningBlockTxid' = NoTxid
    /\ snapshots' = EmptyMap
    /\ canonical_tip' = NoTxid
    /\ tip' = NoTxid

\* dotsTask: generateGraph and the INSERT INTO dots succeed
Publish ==
    /\ alive /\ pc = "render"
    /\ dots' = Append(dots, StartBlock)
    /\ pc' = "idle"
    /\ DropLocals
    /\ UNCHANGED <<addrVars, powerVars>>
    /\ UNCHANGED <<alive, fatal>>

\* dotsTask: hubDb.Exec fails; the error is returned to the scheduler (errFunc logs it)
PublishError ==
    /\ alive /\ pc = "render"
    /\ fatal' = "dotsTask"
    /\ pc' = "idle"
    /\ DropLocals
    /\ UNCHANGED <<addrVars, powerVars>>
    /\ UNCHANGED <<alive, dots>>

\* winning_block_txid of the snapshots row at height h: the txid of a block commit
\* of burn block h, or a value that names no commit of the window (no sortition
\* winner, or a commit outside the query).  processWinningBlocks compares it only
\* with the txids of the commits at h.
WinnerTxids(h) ==
    {t \in DOMAIN allCommits : allCommits[t].burnBlockHeight = h} \cup {NoTxid}

PipelineNext(maxRuns) ==
    \/ DotsStart(maxRuns)
    \/ BlockRangeError(maxRuns)
    \/ FetchReadError
    \/ FetchDone
    \/ \E w \in WinnerTxids(block_height) : WinningHeight(w)
    \/ WinnerReadError
    \/ CanonicalStart
    \/ ChainHeadReadError
    \/ CanonicalWalk
    \/ Publish
    \/ PublishError

Next ==
    \/ \E c \in NextRows(rows, {1}, {"s1"}, TopologyParentKeys) : ScanRow(c)
    \/ PipelineNext(1)

Spec == Init /\ [][Next]_vars

FeesNext ==
    \/ \E c \in NextRows(rows, Spends, SortitionIds, NoParentKeys) : ScanRow(c)
    \/ PipelineNext(1)

SpecFees == Init /\ [][FeesNext]_vars

\* The scheduler runs dotsTask again after it has returned
HostNext ==
    \/ \E c \in NextRows(rows, {1}, {"s1"}, NoParentKeys) : ScanRow(c)
    \/ PipelineNext(MaxRuns)

SpecHost == Init /\ [][HostNext]_vars

----
\* v, ok := m[k] with the zero value "" for a missing key
Get(table, k) == IF k \in DOMAIN table THEN table[k] ELSE <<>>

\* m[k] += d on a map of uint
Inc(m, k, d) == MapPut(m, k, (IF k \in DOMAIN m THEN m[k] ELSE 0) + d)

\* uint subtraction; below zero it wraps to 2^64 - (b - a)
UintSub(a, b) == IF a >= b THEN a - b ELSE <<"2^64 -", b - a>>

\* strings.Trim(str, "\""): strip the leading and trailing double quotes
RECURSIVE Trim(_)
Trim(str) ==
    IF str = <<>> THEN str
    ELSE IF Head(str) = "q" THEN Trim(Tail(str))
    ELSE IF str[Len(str)] = "q" THEN Trim(SubSeq(str, 1, Len(str) - 1))
    ELSE str

\* minerAddressMap.LoadOrStore(stxAddr, btcAddr): the first mapping stays
LoadOrStore(table, stxAddr, btcAddr) ==
    IF stxAddr \in DOMAIN table THEN table ELSE MapPut(table, stxAddr, btcAddr)

\* The table the loop of updateMinerAddressMapTask builds from all rows of `seq`
RECURSIVE TableOf(_, _)
TableOf(table, seq) ==
    IF seq = <<>> THEN table
    ELSE TableOf(LoadOrStore(table, Head(seq)[1], Trim(Head(seq)[2])), Tail(seq))

\* Result sets of the miner address query: up to MaxAddrRows rows (stx, btc)
AddrResults ==
    UNION { [1..n -> Addresses \X RawBtcAddrs] : n \in 0..MaxAddrRows }

\* updateMinerAddressMapTask: cdb.Query succeeds (tasks.go 116-127)
RefreshQuery(result) ==
    /\ alive /\ upc = "idle"
    /\ upc' = "queried"
    /\ addrRows' = result
    /\ oldTable' = minerAddressMap
    /\ newTable' = TableOf(EmptyMap, result)
    /\ UNCHANGED <<minerAddressMap, dotsVars, powerVars>>

RefreshQueryErrorAfterClear ==
    /\ alive /\ upc = "idle"
    /\ fatal' = "updateMinerAddressMapTask"
    /\ minerAddressMap' = EmptyMap
    /\ UNCHANGED <<alive, pc, rows, allCommits, hashMap, commitsByBlock, sortitionFeesMap,
                   block_height, winningBlockTxid, snapshots, canonical_tip, tip, dots,
                   upc, addrRows, oldTable, newTable, powerVars>>

\* updateMinerAddressMapTask: cdb.Query fails, the error is returned
RefreshQueryError ==
    /\ alive /\ upc = "idle"
    /\ fatal' = "updateMinerAddressMapTask"
    /\ UNCHANGED <<alive, pc, rows, allCommits, hashMap, commitsByBlock, sortitionFeesMap,
                   block_height, winningBlockTxid, snapshots, canonical_tip, tip, dots,
                   addrVars, powerVars>>

\* updateMinerAddressMapTask: minerAddressMap.Clear() (tasks.go 130)
RefreshClear ==
    /\ alive /\ upc = "queried"
    /\ minerAddressMap' = EmptyMap
    /\ upc' = "storing"
    /\ UNCHANGED <<addrRows, oldTable, newTable, dotsVars, powerVars>>

\* updateMinerAddressMapTask: one rows.Next() iteration that scans and stores
\* (tasks.go 133-144)
RefreshStore ==
    /\ alive /\ upc = "storing" /\ addrRows # <<>>
    /\ minerAddressMap' =
           LoadOrStore(minerAddressMap, Head(addrRows)[1], Trim(Head(addrRows)[2]))
    /\ addrRows' = Tail(addrRows)
    /\ UNCHANGED <<upc, oldTable, newTable, dotsVars, powerVars>>

\* updateMinerAddressMapTask in tasks.go: rows.Scan fails, break, return nil
RefreshScanErrorBreak ==
    /\ alive /\ upc = "storing" /\ addrRows # <<>>
    /\ addrRows' = <<>>
    /\ upc' = "idle"
    /\ oldTable' = minerAddressMap
    /\ newTable' = minerAddressMap
    /\ UNCHANGED <<minerAddressMap, dotsVars, powerVars>>

\* updateMinerAddressMapTask in the later revision: rows.Scan fails, continue
RefreshScanErrorContinue ==
    /\ alive /\ upc = "storing" /\ addrRows # <<>>
    /\ addrRows' = Tail(addrRows)
    /\ UNCHANGED <<minerAddressMap, upc, oldTable, newTable, dotsVars, powerVars>>

\* updateMinerAddressMapTask: rows exhausted, return nil
RefreshDone ==
    /\ alive /\ upc = "storing" /\ addrRows = <<>>
    /\ upc' = "idle"
    /\ oldTable' = minerAddressMap
    /\ newTable' = minerAddressMap
    /\ UNCHANGED <<minerAddressMap, addrRows, dotsVars, powerVars>>

RefreshNext ==
    \/ \E result \in AddrResults : RefreshQuery(result)
    \/ RefreshQueryError
    \/ RefreshClear
    \/ RefreshStore
    \/ RefreshScanErrorBreak
    \/ RefreshScanErrorContinue
    \/ RefreshDone

----
\* queryMinerPower: openDatabases, the tip, getBlockRange and the block_ancestors
\* query succeed; fresh maps (tasks.go 157-190)
PowerStart ==
    /\ alive /\ mpc = "idle"
    /\ mpc' = "scan"
    /\ rowsSeen' = 0
    /\ addrCounts' = EmptyMap
    /\ btcSpent' = EmptyMap
    /\ stxEarnt' = EmptyMap
    /\ numRows' = 0
    /\ miners' = <<>>
    /\ ancestors' = <<>>
    /\ UNCHANGED <<dotsVars, addrVars>>

\* queryMinerPower: cdb.Get, getBlockRange, cdb.Query, rows.Scan or rows.Err()
\* fails, log.Fatal
PowerReadError ==
    /\ alive /\ mpc \in {"idle", "scan"}
    /\ fatal' = "queryMinerPower"
    /\ Exit

ScanAncestorSkipBelow(address, burnHeight, commitBurn, stxReward) ==
    /\ alive /\ mpc = "scan" /\ rowsSeen < numBlocks
    /\ rowsSeen' = rowsSeen + 1
    /\ IF burnHeight < PowerLowerBound
       THEN UNCHANGED <<addrCounts, btcSpent, stxEarnt, numRows>>
       ELSE /\ addrCounts' = Inc(addrCounts, address, 1)
            /\ btcSpent' = Inc(btcSpent, address, commitBurn)
            /\ stxEarnt' = Inc(stxEarnt, address, stxReward)
            /\ numRows' = numRows + 1
    /\ UNCHANGED <<mpc, miners, dotsVars, addrVars>>

\* queryMinerPower: one rows.Next() iteration (tasks.go 192-207); the query
\* yields at most numBlocks rows
ScanAncestor(address, burnHeight, commitBurn, stxReward) ==
    /\ alive /\ mpc = "scan" /\ rowsSeen < numBlocks
    /\ rowsSeen' = rowsSeen + 1
    /\ IF burnHeight <= PowerLowerBound
       THEN UNCHANGED <<addrCounts, btcSpent, stxEarnt, numRows>>
       ELSE /\ addrCounts' = Inc(addrCounts, address, 1)
            /\ btcSpent' = Inc(btcSpent, address, commitBurn)
            /\ stxEarnt' = Inc(stxEarnt, address, stxReward)
            /\ numRows' = numRows + 1
    /\ UNCHANGED <<mpc, miners, dotsVars, addrVars>>

\* One iteration over a window of up to numBlocks rows; the history is not kept
PowerRow(address, burnHeight, commitBurn, stxReward) ==
    /\ ScanAncestor(address, burnHeight, commitBurn, stxReward)
    /\ UNCHANGED ancestors

\* One iteration with the row appended to the history (chains of up to MaxChain rows)
PowerRowRecorded(address, burnHeight, commitBurn, stxReward) ==
    /\ Len(ancestors) < MaxChain
    /\ ScanAncestor(address, burnHeight, commitBurn, stxReward)
    /\ ancestors' = Append(ancestors, [address |-> address, burnHeight |-> burnHeight])

NoSortitionCountIgnoresRows(n) == numBlocks

\* addrCounts[noSortitionKey] = numBlocks - numRows
NoSortitionCount(n) == UintSub(numBlocks, n)

\* A float32 that is zero or positive and normal: [m, e] stands for m * 2^e
\* with 2^23 <= m < 2^24 (24 significant bits), zero is [m |-> 0, e |-> 0].
\* Signs, subnormals, infinities and NaN do not occur in queryMinerPower.
F32Zero == [m |-> 0, e |-> 0]

\* Shift a significand 0 < m < 2^24 up to 24 bits
RECURSIVE F32Normalize(_, _)
F32Normalize(m, e) ==
    IF m >= 2^23 THEN [m |-> m, e |-> e] ELSE F32Normalize(2 * m, e - 1)

\* float32(n) of an unsigned integer n < 2^24: exact
F32FromUint(n) == IF n = 0 THEN F32Zero ELSE F32Normalize(n, 0)

\* Round to nearest, ties to even: significand m0 followed by the discarded
\* bits rem, of which half is the weight of the first
F32Round(m0, e0, rem, half) ==
    LET up == rem > half \/ (rem = half /\ m0 % 2 = 1)
        m1 == IF up THEN m0 + 1 ELSE m0
    IN  IF m1 = 2^24 THEN [m |-> 2^23, e |-> e0 + 1] ELSE [m |-> m1, e |-> e0]

\* Long division: n more quotient bits of r / d after the quotient bits q
RECURSIVE DivBits(_, _, _, _)
DivBits(q, r, d, n) ==
    IF n = 0 THEN <<q, r>>
    ELSE IF 2 * r >= d THEN DivBits(2 * q + 1, 2 * r - d, d, n - 1)
         ELSE DivBits(2 * q, 2 * r, d, n - 1)

\* a / b in float32 (b not zero): the 24-bit quotient of the significands,
\* rounded by the remainder
F32Div(a, b) ==
    IF a.m = 0 THEN F32Zero
    ELSE LET n0 == IF a.m >= b.m THEN a.m ELSE 2 * a.m
             e0 == IF a.m >= b.m THEN a.e - b.e - 23 ELSE a.e - b.e - 24
             qr == DivBits(1, n0 - b.m, b.m, 23)
         IN  F32Round(qr[1], e0, 2 * qr[2], b.m)

\* a * b in float32: the 48-bit product of the significands in two 24-bit
\* limbs hi and lo, rounded to 24 bits
F32Mul(a, b) ==
    IF a.m = 0 \/ b.m = 0 THEN F32Zero
    ELSE LET ah == a.m \div 4096
             al == a.m % 4096
             bh == b.m \div 4096
             bl == b.m % 4096
             mid == ah * bl + al * bh
             lowsum == al * bl + (mid % 4096) * 4096
             lo == lowsum % 2^24
             hi == ah * bh + (mid \div 4096) + (lowsum \div 2^24)
         IN  IF hi >= 2^23
             THEN F32Round(hi, a.e + b.e + 24, lo, 2^23)
             ELSE F32Round(2 * hi + (lo \div 2^23), a.e + b.e + 23, lo % 2^23, 2^22)

\* a <= b on these float32 values
F32Leq(a, b) ==
    \/ a.m = 0
    \/ b.m # 0 /\ (a.e < b.e \/ (a.e = b.e /\ a.m <= b.m))

WinRateIntegerDivision(won) == F32FromUint((won \div numBlocks) * 100)

\* WinRate: (float32(won) / numBlocks) * 100; the untyped constants numBlocks
\* and 100 take the type float32
WinRateOf(won) ==
    F32Mul(F32Div(F32FromUint(won), F32FromUint(numBlocks)), F32FromUint(100))

\* WinRateOf for every win count a window of numBlocks allows (at most
\* numBlocks rows are read, so won = numBlocks - numRows never wraps)
WinRates == [won \in 0..numBlocks |-> WinRateOf(won)]

\* The struct miner built for one key of addrCounts (tasks.go 219-230);
\* StxEarnt is kept in micro-STX
Miner(addr, counts, spent, earnt, table) ==
    [StacksRecipient |-> addr,
     BitcoinAddress |-> Get(table, addr),
     BlocksWon |-> counts[addr],
     BtcSpent |-> spent[addr],
     StxEarnt |-> earnt[addr],
     WinRate |-> WinRates[counts[addr]]]

\* The orders in which `for addr, won := range addrCounts` (order not specified)
\* followed by slices.SortFunc (not stable) may leave the records S: every
\* arrangement by descending BlocksWon
SortedByBlocksWon(S) ==
    { seq \in [1..Cardinality(S) -> S] :
        /\ \A i, j \in 1..Cardinality(S) : i # j => seq[i] # seq[j]
        /\ \A i, j \in 1..Cardinality(S) : i < j => seq[i].BlocksWon >= seq[j].BlocksWon }

\* queryMinerPower: rows exhausted; the synthetic bucket, one miner per key of
\* addrCounts with its minerAddressMap.Load, the sort, return (tasks.go 209-237)
PowerFinish ==
    /\ alive /\ mpc = "scan"
    /\ LET counts == MapPut(addrCounts, noSortitionKey, NoSortitionCount(numRows))
           spent == MapPut(btcSpent, noSortitionKey, 0)
           earnt == MapPut(stxEarnt, noSortitionKey, 0)
       IN  /\ addrCounts' = counts
           /\ btcSpent' = spent
           /\ stxEarnt' = earnt
           /\ miners' \in SortedByBlocksWon(
                  {Miner(a, counts, spent, earnt, minerAddressMap) : a \in DOMAIN counts})
    /\ mpc' = "idle"
    /\ UNCHANGED <<rowsSeen, numRows, ancestors, dotsVars, addrVars>>

PowerNext ==
    \/ PowerStart
    \/ PowerReadError
    \/ \E a \in Addresses, h \in PowerHeights, b \in CommitBurns, r \in StxRewards :
          PowerRow(a, h, b, r)
    \/ PowerFinish

SpecPower == Init /\ [][PowerNext]_vars

\* /miners/power over ancestor chains of up to MaxChain blocks
ChainNext ==
    \/ PowerStart
    \/ PowerReadError
    \/ \E a \in Addresses, h \in PowerHeights, b \in CommitBurns, r \in StxRewards :
          PowerRowRecorded(a, h, b, r)
    \/ PowerFinish

SpecChain == Init /\ [][ChainNext]_vars

\* /miners/power served while the scheduler refreshes minerAddressMap; the
\* ancestor chain here is a single block of SP1 inside the window
AddrNext ==
    \/ RefreshNext
    \/ PowerStart
    \/ PowerReadError
    \/ \E b \in CommitBurns, r \in StxRewards :
          rowsSeen = 0 /\ PowerRow("SP1", PowerLowerBound + 1, b, r)
    \/ PowerFinish

SpecAddr == Init /\ [][AddrNext]_vars

----
\* The graph returned by fetchCommitData exists (the passes run or have run on it)
GraphBuilt == pc \in {"winning", "canonical", "render"}

Txids == DOMAIN allCommits

\* C2: immediately after the per-height pass has processed a height H that has
\* at least one bid and whose declared winner is one of the bids at H, exactly
\* one bid at H has potentialTip = TRUE.
C2_OnePotentialTipAtProcessedHeight ==
    (pc = "winning" /\ block_height > LowerBound) =>
        LET H == block_height - 1
        IN  (H \in DOMAIN commitsByBlock /\ winningBlockTxid \in commitsByBlock[H]) =>
                Cardinality({t \in commitsByBlock[H] : allCommits[t].potentialTip}) = 1

\* C2 witness: a height with two bids, one of them the declared winner whose
\* resolved parent is the other one, has just been processed.
C2_Witness ==
    /\ pc = "winning" /\ block_height > LowerBound
    /\ (block_height - 1) \in DOMAIN commitsByBlock
    /\ Cardinality(commitsByBlock[block_height - 1]) >= 2
    /\ winningBlockTxid \in commitsByBlock[block_height - 1]
    /\ allCommits[winningBlockTxid].parent \in commitsByBlock[block_height - 1]

\* C3: in the graph built by fetchCommitData, every bid with a resolved parent
\* has a parent whose PositionalKey is the bid's declared parent reference and
\* whose height is at most the bid's height.
C3_ParentKeyMatches ==
    \A t \in Txids :
        allCommits[t].parent # NoTxid =>
            /\ allCommits[t].parent \in Txids
            /\ Key(allCommits[allCommits[t].parent]) = ParentKey(allCommits[t])
            /\ allCommits[allCommits[t].parent].burnBlockHeight
                   <= allCommits[t].burnBlockHeight

\* C3 witness: a returned graph in which one bid declares a reference above its
\* own height (left unresolved) and another has a resolved parent at its own height.
C3_Witness ==
    /\ GraphBuilt
    /\ \E t \in Txids : allCommits[t].parentBlockPtr > allCommits[t].burnBlockHeight
    /\ \E t \in Txids :
          /\ allCommits[t].parent # NoTxid
          /\ allCommits[allCommits[t].parent].burnBlockHeight = allCommits[t].burnBlockHeight

\* Sum of spend over the raw rows of the scan whose sortition id is g
RECURSIVE RowSpend(_, _)
RowSpend(seq, g) ==
    IF seq = <<>> THEN 0
    ELSE (IF Head(seq).sortitionId = g THEN Head(seq).spend ELSE 0) + RowSpend(Tail(seq), g)

\* SortitionFeesMap[g] as Go reads a map: 0 for a missing key
FeesOf(g) == IF g \in DOMAIN sortitionFeesMap THEN sortitionFeesMap[g] ELSE 0

\* C4: for every sortition id g, SortitionFeesMap[g] returned by fetchCommitData
\* equals the sum of spend over the raw input rows whose sortition id is g.
C4_FeesEqualRowSum ==
    GraphBuilt => \A g \in SortitionIds : FeesOf(g) = RowSpend(rows, g)

\* C4 witness: three rows, two of one sortition id with different spends and
\* one of the other id.
C4_Witness ==
    /\ GraphBuilt /\ Len(rows) = 3
    /\ rows[1].sortitionId = rows[2].sortitionId /\ rows[1].spend # rows[2].spend
    /\ rows[3].sortitionId # rows[1].sortitionId
    /\ FeesOf(rows[1].sortitionId) = 3

\* C6: after processCanonicalTip has run, running it again on the same graph
\* with the same chain head changes nothing: the same bids are canonical and the
\* same bid is the tip.
C6_CanonicalIdempotent ==
    pc = "render" =>
        LET again == ProcessCanonicalTip(allCommits, canonical_tip)
        IN  /\ {t \in Txids : again[t].canonical} = {t \in Txids : allCommits[t].canonical}
            /\ {t \in Txids : again[t].tip} = {t \in Txids : allCommits[t].tip}

\* C6 witness: the walk has marked a chain of at least two bids.
C6_Witness ==
    /\ pc = "render"
    /\ Cardinality({t \in Txids : allCommits[t].canonical}) >= 2
    /\ \E t \in Txids : allCommits[t].tip

\* C9: before rendering, a bid C at height H has nextTip = TRUE whenever the
\* canonical bid at height H + 1 has C as its resolved parent.
C9_NextTipSet ==
    pc = "render" =>
        \A c \in Txids : \A d \in Txids :
            ( /\ allCommits[d].canonical
              /\ allCommits[d].burnBlockHeight = allCommits[c].burnBlockHeight + 1
              /\ allCommits[d].parent = c ) => allCommits[c].nextTip

\* The no-fork window: one bid at every height, each declaring the bid of the
\* preceding height as its parent, each the declared winner of its height.
NoForkWindow ==
    /\ DOMAIN commitsByBlock = WindowHeights
    /\ \A h \in WindowHeights : Cardinality(commitsByBlock[h]) = 1
    /\ \A t \in Txids : allCommits[t].won
    /\ \A t \in Txids : \A u \in Txids :
          allCommits[t].burnBlockHeight = allCommits[u].burnBlockHeight + 1 =>
              ParentKey(allCommits[t]) = Key(allCommits[u])

\* C10: after both passes over a no-fork window every bid is canonical, and the
\* bid at the top height is the only one with tip and the only one with potentialTip.
C10_NoForkScenario ==
    (pc = "render" /\ NoForkWindow) =>
        /\ \A t \in Txids : allCommits[t].canonical
        /\ \A t \in Txids : allCommits[t].tip <=> allCommits[t].burnBlockHeight = StartBlock
        /\ \A t \in Txids :
              allCommits[t].potentialTip <=> allCommits[t].burnBlockHeight = StartBlock

\* C10 witness: both passes have finished on a no-fork window.
C10_Witness == pc = "render" /\ NoForkWindow

\* C7: no error of the core computations terminates the host process: after a
\* failed read the process is still alive, so the next scheduled invocation can run.
C7_NoErrorTerminatesHost ==
    fatal \in {"getBlockRange", "fetchCommitData", "processWinningBlocks",
               "processCanonicalTip"} => alive

\* C8: when a read of the bid row source fails, the failing step publishes
\* nothing and leaves the published dots unchanged, and no later step of that
\* invocation publishes a graph.
C8_NoPartialGraphPublished ==
    [][ /\ (fatal' = "fetchCommitData" /\ fatal # "fetchCommitData") => dots' = dots
        /\ dots' # dots => fatal # "fetchCommitData" ]_vars

\* C8 witness: the read failed after rows had been read, while an earlier
\* invocation's output is published.
C8_Witness == fatal = "fetchCommitData" /\ rows # <<>> /\ dots # <<>>

\* C1: a lookup of queryMinerPower that runs while updateMinerAddressMapTask
\* refreshes the table returns the value of the complete table before the
\* refresh or of the complete table after it.
C1_ReaderNeverSeesPartialTable ==
    [][ (mpc = "scan" /\ mpc' = "idle") =>
            \A i \in 1..Len(miners') :
                miners'[i].BitcoinAddress \in {Get(oldTable, miners'[i].StacksRecipient),
                                               Get(newTable, miners'[i].StacksRecipient)} ]_vars

\* Sum of BlocksWon over the records of a response
RECURSIVE SumBlocksWon(_)
SumBlocksWon(seq) ==
    IF seq = <<>> THEN 0 ELSE Head(seq).BlocksWon + SumBlocksWon(Tail(seq))

\* A response of queryMinerPower has been returned
PowerReturned == mpc = "idle" /\ miners # <<>>

\* C5: the BlocksWon of all returned records, the "No Canonical Sortition"
\* bucket included, add up to numBlocks (144).
C5_BlocksWonSumIsWindow == PowerReturned => SumBlocksWon(miners) = numBlocks

\* C5 witness: a response over a full window of 144 rows, some skipped for
\* their height, with two producers and a non-empty synthetic bucket.
C5_Witness ==
    /\ PowerReturned /\ rowsSeen = numBlocks /\ numRows < rowsSeen
    /\ Len(miners) = 3
    /\ \A i \in 1..3 : miners[i].BlocksWon > 0

----
\* The bids the backward walk from t visits in commits: t, then resolved parent
\* ids, up to the first id that is not in the graph (n bounds the length)
RECURSIVE WalkSet(_, _, _)
WalkSet(commits, t, n) ==
    IF t \notin DOMAIN commits \/ n = 0 THEN {}
    ELSE {t} \cup WalkSet(commits, commits[t].parent, n - 1)

\* The bids the walk from the chain head reaches: the head and its ancestors
HeadAncestors == WalkSet(allCommits, canonical_tip, Cardinality(Txids))

\* A and B are sibling bids at height H with the same resolved parent at H - 1
ForkAt(A, B, H) ==
    /\ A \in Txids /\ B \in Txids /\ A # B
    /\ allCommits[A].burnBlockHeight = H /\ allCommits[B].burnBlockHeight = H
    /\ allCommits[A].parent \in Txids
    /\ allCommits[B].parent = allCommits[A].parent
    /\ allCommits[allCommits[A].parent].burnBlockHeight = H - 1

PossibleResponses ==
    LET counts == MapPut(addrCounts, noSortitionKey, NoSortitionCount(numRows))
        spent == MapPut(btcSpent, noSortitionKey, 0)
        earnt == MapPut(stxEarnt, noSortitionKey, 0)
    IN  SortedByBlocksWon(
            {Miner(a, counts, spent, earnt, minerAddressMap) : a \in DOMAIN counts})

\* C12: the result order is reproducible: from the same ancestor-chain rows and
\* the same address table every invocation returns the identical ordered list,
\* so at every point where queryMinerPower may return exactly one list is possible.
C12_ResultOrderReproducible ==
    mpc = "scan" => Cardinality(PossibleResponses) = 1

\* WinRate * 144 of a record with a non-zero WinRate [m, e], in units of 2^(e + 4)
RateScaled(r) == r.WinRate.m * 9

\* wins * 100 of that record in the same units (e <= -2 for a rate up to 100)
ExactScaled(r) == r.BlocksWon * 25 * 2^(0 - r.WinRate.e - 2)

\* WinRate is the real number wins / 144 * 100
RateExact(r) ==
    IF r.WinRate.m = 0 THEN r.BlocksWon = 0 ELSE RateScaled(r) = ExactScaled(r)

\* WinRate is within 2^-23 (relative) of the real number wins / 144 * 100
RateWithinRounding(r) ==
    IF r.WinRate.m = 0 THEN r.BlocksWon = 0
    ELSE LET d == RateScaled(r) - ExactScaled(r)
         IN  (IF d < 0 THEN 0 - d ELSE d) <= ExactScaled(r) \div 2^23

\* The list is ordered by non-increasing WinRate
OrderedByWinRate(seq) ==
    \A i \in 1..Len(seq) : \A j \in 1..Len(seq) :
        i < j => F32Leq(seq[j].WinRate, seq[i].WinRate)

\* C13 as stated: every returned record has WinRate equal to wins / 144 * 100,
\* and the returned list is ordered by non-increasing WinRate.
C13_WinRateExact ==
    PowerReturned =>
        /\ \A i \in 1..Len(miners) : RateExact(miners[i])
        /\ OrderedByWinRate(miners)

\* C13 amended: every returned record's WinRate is the float32 result of
\* (float32(wins) / 144) * 100: equal to wins / 144 * 100 when wins is a multiple
\* of 9, and within 2^-23 of it (relative) otherwise; the returned list is
\* ordered by non-increasing WinRate.
C13_WinRateRounded ==
    PowerReturned =>
        /\ \A i \in 1..Len(miners) :
              /\ RateWithinRounding(miners[i])
              /\ miners[i].BlocksWon % 9 = 0 => RateExact(miners[i])
        /\ OrderedByWinRate(miners)

\* C13 witness: a response with three records of different win counts, one of
\* them a non-zero multiple of 9 and one whose WinRate is not the exact quotient.
C13_Witness ==
    /\ PowerReturned /\ Len(miners) = 3
    /\ miners[1].BlocksWon > miners[2].BlocksWon
    /\ miners[2].BlocksWon > miners[3].BlocksWon
    /\ \E i \in 1..3 : miners[i].BlocksWon % 9 = 0 /\ miners[i].BlocksWon > 0
    /\ \E i \in 1..3 : ~RateExact(miners[i])

\* C14: the canonical pass starts at the bid whose id is the winner declared at
\* the top-of-window height and follows resolved parent ids backward up to the
\* first id that is not in the graph: afterwards exactly the visited bids have
\* canonical = TRUE, only the chain head has tip = TRUE (so at most one bid),
\* and when the chain-head id is not in the graph no bid is canonical or tip.
C14_CanonicalPassMarksWalk ==
    pc = "render" =>
        /\ canonical_tip = snapshots[StartBlock]
        /\ {t \in Txids : allCommits[t].canonical} = HeadAncestors
        /\ {t \in Txids : allCommits[t].tip} = {canonical_tip} \cap Txids
        /\ Cardinality({t \in Txids : allCommits[t].tip}) <= 1
        /\ canonical_tip \notin Txids =>
              \A t \in Txids : ~allCommits[t].canonical /\ ~allCommits[t].tip

\* C14 witness: the pass has walked from a chain head in the graph over at
\* least two bids and has left another bid of the graph unvisited.
C14_Witness ==
    /\ pc = "render" /\ canonical_tip \in Txids
    /\ Cardinality(HeadAncestors) >= 2
    /\ \E t \in Txids : t \notin HeadAncestors /\ ~allCommits[t].canonical

\* C15: after the canonical pass the canonical chain has at most one bid per
\* height: no two bids with canonical = TRUE share a burn height.
C15_OneCanonicalPerHeight ==
    pc = "render" =>
        \A t \in Txids : \A u \in Txids :
            ( /\ allCommits[t].canonical /\ allCommits[u].canonical
              /\ allCommits[t].burnBlockHeight = allCommits[u].burnBlockHeight ) => t = u

\* A bid record without the two flags the canonical pass owns
WithoutCanonicalFlags(c) == [c EXCEPT !.canonical = FALSE, !.tip = FALSE]

\* C16: every step of the canonical pass leaves every bid's won and
\* potentialTip flags, its parent link and the grouping by height unchanged and
\* modifies only canonical and tip.
C16_CanonicalPassFrame ==
    [][ (pc = "canonical" \/ pc' = "canonical") =>
            /\ DOMAIN allCommits' = DOMAIN allCommits
            /\ \A t \in DOMAIN allCommits :
                  WithoutCanonicalFlags(allCommits'[t]) = WithoutCanonicalFlags(allCommits[t])
            /\ commitsByBlock' = commitsByBlock
            /\ hashMap' = hashMap ]_vars

\* C16 witness: after both passes a bid that did not win is canonical while a
\* bid of the same height keeps won = TRUE and is not canonical.
C16_Witness ==
    /\ pc = "render"
    /\ \E A \in Txids : \E B \in Txids :
          /\ allCommits[A].burnBlockHeight = allCommits[B].burnBlockHeight
          /\ allCommits[A].won /\ ~allCommits[A].canonical
          /\ ~allCommits[B].won /\ allCommits[B].canonical

\* Number of rows of seq that satisfy the test (a function of rows to BOOLEAN)
RECURSIVE CountRows(_, _)
CountRows(seq, test) ==
    IF seq = <<>> THEN 0
    ELSE (IF test[Head(seq)] THEN 1 ELSE 0) + CountRows(Tail(seq), test)

\* The rows the history can hold
AncestorRows == [address : Addresses, burnHeight : PowerHeights]

\* BlocksWon of the returned record of addr, 0 when there is none
WinsOf(addr) ==
    IF \E i \in 1..Len(miners) : miners[i].StacksRecipient = addr
    THEN miners[CHOOSE i \in 1..Len(miners) : miners[i].StacksRecipient = addr].BlocksWon
    ELSE 0

\* C17 as stated: every block visited by the ancestor walk is attributed to
\* its producer: each producer's win count is the number of visited blocks it
\* produced, and the no-winner bucket is windowSize minus the number of visited
\* blocks.
C17_EveryVisitedBlockCounted ==
    PowerReturned =>
        /\ \A a \in Addresses :
              WinsOf(a) = CountRows(ancestors, [r \in AncestorRows |-> r.address = a])
        /\ WinsOf(noSortitionKey) = numBlocks - Len(ancestors)

\* C17 amended: every visited block whose burn height is above the lower bound
\* of the window (MAX(block_height) - windowSize) is attributed to its
\* producer, and visited blocks at or below the lower bound are skipped: each
\* producer's win count is the number of visited blocks above the bound it
\* produced, and the no-winner bucket is windowSize minus the number of visited
\* blocks above the bound.
C17_VisitedBlocksInWindowCounted ==
    PowerReturned =>
        /\ \A a \in Addresses :
              WinsOf(a) = CountRows(ancestors,
                  [r \in AncestorRows |-> r.address = a /\ r.burnHeight > PowerLowerBound])
        /\ WinsOf(noSortitionKey) = numBlocks -
              CountRows(ancestors, [r \in AncestorRows |-> r.burnHeight > PowerLowerBound])

\* C17 witness: a response over a walk that visited blocks of both producers
\* above the bound and a block at the lower bound.
C17_Witness ==
    /\ PowerReturned /\ Len(ancestors) = rowsSeen
    /\ \A a \in Addresses :
          \E i \in 1..Len(ancestors) :
              ancestors[i].address = a /\ ancestors[i].burnHeight > PowerLowerBound
    /\ \E i \in 1..Len(ancestors) : ancestors[i].burnHeight = PowerLowerBound

\* Scan positions before i whose PositionalKey is the declared parent reference
\* of the i-th scanned row
EarlierWithKey(i) == {j \in 1..(i - 1) : Key(rows[j]) = ParentKey(rows[i])}

\* The largest element of a non-empty set of scan positions
Latest(S) == CHOOSE j \in S : \A k \in S : k <= j

\* C18: in fetchCommitData a bid's parent is resolved exactly when a bid
\* scanned strictly earlier has a PositionalKey equal to the bid's declared
\* parent reference, otherwise the bid is a root with the empty parent; when
\* several earlier bids share that key, the parent is the latest scanned of them.
C18_ParentIsLatestEarlierKey ==
    (pc = "fetch" \/ GraphBuilt) =>
        /\ Txids = {rows[i].txid : i \in 1..Len(rows)}
        /\ \A i \in 1..Len(rows) :
              allCommits[rows[i].txid].parent =
                  IF EarlierWithKey(i) = {} THEN NoTxid
                  ELSE rows[Latest(EarlierWithKey(i))].txid

\* C18 witness: a returned graph where two bids scanned earlier share the key a
\* third bid declares as parent (resolved to the later of the two), and where a
\* bid declares the key of a bid scanned after it and stays a root.
C18_Witness ==
    /\ GraphBuilt
    /\ \E i \in 1..Len(rows) :
          /\ Cardinality(EarlierWithKey(i)) = 2
          /\ allCommits[rows[i].txid].parent = rows[i - 1].txid
    /\ \E i \in 1..Len(rows) : \E j \in (i + 1)..Len(rows) :
          /\ Key(rows[j]) = ParentKey(rows[i])
          /\ allCommits[rows[i].txid].parent = NoTxid

\* The per-iteration scheduling of processCanonicalTip: the for loop is
\* sequential code of a running process, so an enabled iteration is taken
SpecWalk == Init /\ [][Next]_vars /\ WF_vars(CanonicalWalk)

\* No bid is its own ancestor over the resolved parent links
NoParentCycle ==
    \A t \in Txids :
        t \notin WalkSet(allCommits, allCommits[t].parent, Cardinality(Txids))

\* C19: in every graph fetchCommitData builds the resolved parent links contain
\* no cycle (whatever id the walk starts from), the backward walk of
\* processCanonicalTip never comes to a bid it has already visited, and the walk
\* terminates.
C19_WalkTerminates ==
    /\ [](NoParentCycle)
    /\ []((pc = "canonical" /\ tip \in Txids) => ~allCommits[tip].canonical)
    /\ (pc = "canonical") ~> (pc = "render")

\* C19 witness: the walk has terminated after visiting every bid of a graph of
\* MaxRows bids, one of which declared its own PositionalKey as its parent.
C19_Witness ==
    /\ pc = "render" /\ Len(rows) = MaxRows
    /\ \A t \in Txids : allCommits[t].canonical
    /\ \E t \in Txids : ParentKey(allCommits[t]) = Key(allCommits[t])

\* C20: a refresh whose source query fails returns the error and leaves the
\* address table exactly as it was, and the running process changes the table
\* only in a refresh whose query has succeeded (the clear and the stores after it).
C20_QueryFailureKeepsTable ==
    [][ /\ (fatal' = "updateMinerAddressMapTask" /\ fatal # "updateMinerAddressMapTask") =>
              /\ minerAddressMap' = minerAddressMap
              /\ upc = "idle" /\ upc' = "idle"
        /\ (alive' /\ minerAddressMap' # minerAddressMap) =>
              upc \in {"queried", "storing"} ]_vars

\* C20 witness: a refresh has failed at its query and the table still holds
\* the two mappings an earlier refresh stored.
C20_Witness ==
    /\ fatal = "updateMinerAddressMapTask" /\ upc = "idle"
    /\ DOMAIN minerAddressMap = Addresses

====
